---------------------------- MODULE Spec2Model ----------------------------
(***************************************************************************)
(* Model of chaudfontaine (src/montenau.py): the coverage ledger           *)
(* (DataCoverage), the calendar builder (makeCalendar), the page           *)
(* fetcher/parser (retrieveStatHoraireTab, parseMeasurements, ...), the    *)
(* storage write (insert_records_measurement), the station-month           *)
(* processor (process_station_month) and the batch drivers                 *)
(* (process_station_alltime, process_meuse_alltime).                       *)
(*                                                                         *)
(* Python strings that are formatted or parsed are tuples of one-character *)
(* strings; measured values are fixed-point numbers in tenths.             *)
(***************************************************************************)
EXTENDS Integers, Sequences, FiniteSets, TLC

VARIABLES
    data_coverage,  \* DataCoverage.data_coverage: the in-memory ledger (a dict)
    pickle_file,    \* the pickle file DataCoverage loads and saves
    saved,          \* the in-memory ledger as it was at the last completed save
    committed,      \* the keys whose page's storage write was committed
    measurement,    \* the rows of table wallonie.measurement
    recent,         \* (Chaudfontaine.recent_year, Chaudfontaine.recent_month)
    soon,           \* (Chaudfontaine.soon_year, Chaudfontaine.soon_month)
    pc,             \* "running", "called" (a call has just ended, ret holds
                    \* what it did), or "raised" (an exception left a call)
    ncalls,         \* number of calls made so far
    ret,            \* what the last call did and returned
    cal,            \* makeCalendar's arguments and result (SpecCal)
    drv             \* the batch driver's position (SpecAll)

vars == <<data_coverage, pickle_file, saved, committed, measurement, recent,
          soon, pc, ncalls, ret, cal, drv>>

\* Python's None and a value that may be None: << >> and <<x>>
None == << >>

Some(x) == <<x>>

----------------------------------------------------------------------------
(* Bounds of the model *)

\* first year of the year-months the processor is called on
BaseYear == 2019
\* number of consecutive year-months, from December of BaseYear on
NumUnits == 2
\* number of calls in one behaviour
MaxCalls == 2
\* first year of the availability windows given to makeCalendar
CalBaseYear == 2018
\* number of years after CalBaseYear that windows and earliest_year range over
CalSpan == 3
\* number of scripted insert_records_measurement calls in one behaviour (SpecDb)
MaxInserts == 3

----------------------------------------------------------------------------
(* Text: formatting and parsing of numbers *)

Digits == <<"0", "1", "2", "3", "4", "5", "6", "7", "8", "9">>

DigitChar(d) == Digits[d + 1]

DigitVal(c) == (CHOOSE i \in 1..10 : Digits[i] = c) - 1

\* "{:0<width>d}".format(n) for n >= 0: at least width digits, zero padded
RECURSIVE ZeroPad(_, _)
ZeroPad(n, width) ==
    IF n < 10 /\ width <= 1 THEN <<DigitChar(n)>>
    ELSE Append(ZeroPad(n \div 10, width - 1), DigitChar(n % 10))

\* int(s) of a string of digits
RECURSIVE ParseInt(_)
ParseInt(s) ==
    IF s = <<>> THEN 0
    ELSE ParseInt(SubSeq(s, 1, Len(s) - 1)) * 10 + DigitVal(s[Len(s)])

\* str.replace('*', '')
StripAnnotation(text) == SelectSeq(text, LAMBDA c : c # "*")

\* float(s), in tenths, of an optional sign, digits and at most one decimal
ParseFloat(s) ==
    LET neg == s # <<>> /\ s[1] = "-"
        body == IF neg THEN Tail(s) ELSE s
        dots == {i \in 1..Len(body) : body[i] = "."}
        dot == IF dots = {} THEN Len(body) + 1 ELSE CHOOSE i \in dots : TRUE
        whole == ParseInt(SubSeq(body, 1, dot - 1))
        frac == IF dot < Len(body) THEN DigitVal(body[dot + 1]) ELSE 0
        mag == whole * 10 + frac
    IN IF neg THEN 0 - mag ELSE mag

----------------------------------------------------------------------------
(* Calendar Builder *)

\* parsePeriod's "{:4}/{:2}/01 00:00:00+01".format(year, month), year and
\* month being the digit strings the regular expression captured
PeriodDate(year_s, month_s) ==
    year_s \o <<"/">> \o month_s \o
    <<"/", "0", "1", " ", "0", "0", ":", "0", "0", ":", "0", "0", "+", "0", "1">>

\* re.findall(r"^(\d\d\d\d)\/(\d\d)\/", date) followed by int()
DateYear(date) == ParseInt(SubSeq(date, 1, 4))

DateMonth(date) == ParseInt(SubSeq(date, 6, 7))

Max(a, b) == IF a >= b THEN a ELSE b

\* [(year, month) for month in range(lo, hi + 1)]
MonthsOf(year, lo, hi) == [i \in 1..(hi - lo + 1) |-> <<year, lo + i - 1>>]

\* [(year, month) for year in range(lo, hi + 1) for month in range(1, 13)]
RECURSIVE FullYears(_, _)
FullYears(lo, hi) ==
    IF lo > hi THEN <<>> ELSE MonthsOf(lo, 1, 12) \o FullYears(lo + 1, hi)

\* a slip: the start year always starts in January
makeCalendarFromJanuary(start_date, end_date, earliest_year) ==
    LET start_year == Max(DateYear(start_date), earliest_year)
        end_year == DateYear(end_date)
        end_month == DateMonth(end_date)
    IN (IF start_year < end_year
        THEN MonthsOf(start_year, 1, 12) \o FullYears(start_year + 1, end_year - 1)
        ELSE <<>>)
       \o MonthsOf(end_year, 1, end_month)

\* a slip: the guard lets the start year in when it equals the end year
makeCalendarLeq(start_date, end_date, earliest_year) ==
    LET start_year == Max(DateYear(start_date), earliest_year)
        start_month == DateMonth(start_date)
        end_year == DateYear(end_date)
        end_month == DateMonth(end_date)
    IN (IF start_year <= end_year
        THEN MonthsOf(start_year, start_month, 12)
             \o FullYears(start_year + 1, end_year - 1)
        ELSE <<>>)
       \o MonthsOf(end_year, 1, end_month)

makeCalendar(start_date, end_date, earliest_year) ==
    LET start_year == Max(DateYear(start_date), earliest_year)
        start_month == DateMonth(start_date)
        end_year == DateYear(end_date)
        end_month == DateMonth(end_date)
    IN (IF start_year < end_year
        THEN MonthsOf(start_year, start_month, 12)
             \o FullYears(start_year + 1, end_year - 1)
        ELSE <<>>)
       \o MonthsOf(end_year, 1, end_month)

----------------------------------------------------------------------------
(* Coverage Ledger: class DataCoverage *)

\* the empty dict {}
EmptyLedger == << >>

\* The pickle file: exists (os.path.exists and isfile), complete (the dump
\* was written to its end) and the items of the pickled dict
NoFile == [exists |-> FALSE, complete |-> FALSE, items |-> {}]

\* open(filename, mode='wb'): the file is there and empty
TruncatedFile == [exists |-> TRUE, complete |-> FALSE, items |-> {}]

\* pickle.dump(data_coverage, file); file.close()
PickleDump(ledger) ==
    [exists |-> TRUE, complete |-> TRUE,
     items |-> {<<k, ledger[k]>> : k \in DOMAIN ledger}]

\* pickle.load(file) of a complete file
PickleLoad(file) ==
    [k \in {item[1] : item \in file.items} |->
        (CHOOSE item \in file.items : item[1] = k)[2]]

\* a slip: the file is never read, the ledger always starts empty
DataCoverageNewAlwaysFresh(file) ==
    [raised |-> FALSE, ledger |-> EmptyLedger, file |-> PickleDump(EmptyLedger)]

\* DataCoverage(filename): the ledger and the file after construction;
\* raised: pickle.load ran out of input (EOFError)
DataCoverageNew(file) ==
    IF file.exists
    THEN IF file.complete
         THEN [raised |-> FALSE, ledger |-> PickleLoad(file), file |-> file]
         ELSE [raised |-> TRUE, ledger |-> EmptyLedger, file |-> file]
    ELSE [raised |-> FALSE, ledger |-> EmptyLedger,
          file |-> PickleDump(EmptyLedger)]

\* the ledger and the file of a first run: no file yet
DataCoverageInit == DataCoverageNew(NoFile)

is_tracked(ledger, coverage_key) == coverage_key \in DOMAIN ledger

get_status(ledger, coverage_key) == ledger[coverage_key]

\* the dict after data_coverage[coverage_key] = coverage_status
set_status(ledger, coverage_key, coverage_status) ==
    [k \in DOMAIN ledger \cup {coverage_key} |->
        IF k = coverage_key THEN coverage_status ELSE ledger[k]]

\* "{}-{}-{}-{}".format(station_type, station_code, year, month): the four
\* fields, none of which holds a "-", joined by "-"
CoverageKey(station_type, station_code, year, month) ==
    <<station_type, station_code, year, month>>

----------------------------------------------------------------------------
(* Configuration *)

QUANTITY_CODES ==
    [precipitation |-> <<"0", "0", "1", "5">>,
     debit |-> <<"1", "0", "0", "2">>,
     hauteur |-> <<"1", "0", "1", "1">>]

quantity_ids == [precipitation |-> 4, hauteur |-> 5, debit |-> 6]

----------------------------------------------------------------------------
(* Page Fetcher/Parser *)

\* the request target: code is str(station_code) followed by the type's
\* code; annee and mois are there when given (if(year):, if(month):)
build_url_StatHoraireTab(station_type, station_code, year, month) ==
    [code |-> ZeroPad(station_code, 1) \o QUANTITY_CODES[station_type],
     annee |-> IF year = None \/ year = Some(0) THEN None ELSE year,
     mois |-> IF month = None \/ month = Some(0) THEN None ELSE month]

\* What the server answers to the two urlopen calls of one fetch: first and
\* second are "ok", "HTTPError" or "URLError"; soup is the parsed document.
\* A document is
\*   denied : an <h1> holds "Acces non autorise"
\*   form   : None, or the values of inputs annee and mois (digit strings,
\*            possibly empty)
\*   ntables: number of <table> elements
\*   nrows  : number of <tr align="right"> rows of the table all_tables[-2]
\*   cells  : text of the non-empty cells, by <<day, hour>> (column, row)
retrieveStatHoraireTab(resp) ==
    IF resp.first # "ok"
    THEN [raised |-> FALSE, soup |-> None, http |-> <<"sleep", "urlopen">>]
    ELSE IF resp.second # "ok"
    THEN [raised |-> TRUE, soup |-> None,
          http |-> <<"sleep", "urlopen", "urlopen">>]
    ELSE [raised |-> FALSE, soup |-> resp.soup,
          http |-> <<"sleep", "urlopen", "urlopen">>]

\* a slip: the denial heading is never recognised
access_authorizedAlways(soup) == TRUE

access_authorized(soup) == ~soup.denied

\* a slip: the two form fields are taken in the wrong order
parseYearMonthSwapped(soup) ==
    IF soup.form = None
    THEN [raised |-> TRUE, year |-> None, month |-> None]
    ELSE [raised |-> FALSE,
          year |-> IF soup.form[1].mois # <<>>
                   THEN Some(ParseInt(soup.form[1].mois)) ELSE None,
          month |-> IF soup.form[1].annee # <<>>
                    THEN Some(ParseInt(soup.form[1].annee)) ELSE None]

\* raised: form is None (AttributeError)
parseYearMonth(soup) ==
    IF soup.form = None
    THEN [raised |-> TRUE, year |-> None, month |-> None]
    ELSE [raised |-> FALSE,
          year |-> IF soup.form[1].annee # <<>>
                   THEN Some(ParseInt(soup.form[1].annee)) ELSE None,
          month |-> IF soup.form[1].mois # <<>>
                    THEN Some(ParseInt(soup.form[1].mois)) ELSE None]

\* "{:04d}-{:02d}-{:02d} {:02d}:00:00+01".format(year, month, day, hour)
DatetimeString(year, month, day, hour) ==
    ZeroPad(year, 4) \o <<"-">> \o ZeroPad(month, 2) \o <<"-">>
    \o ZeroPad(day, 2) \o <<" ">> \o ZeroPad(hour, 2)
    \o <<":", "0", "0", ":", "0", "0", "+", "0", "1">>

\* The dict X of datetime string -> value, or an exception:
\*   form missing (AttributeError), all_tables[-2] missing (IndexError),
\*   measurements_rows[hour - 1] missing for an hour of 1..24 (IndexError),
\*   a filled cell formatted with a year or month of None (TypeError)
parseMeasurements(soup) ==
    LET ym == parseYearMonth(soup)
        filled == {c \in DOMAIN soup.cells : c[1] \in 1..31 /\ c[2] \in 1..24}
    IN IF \/ ym.raised
          \/ soup.ntables < 2
          \/ soup.nrows < 24
          \/ (filled # {} /\ (ym.year = None \/ ym.month = None))
       THEN [raised |-> TRUE, X |-> << >>]
       ELSE [raised |-> FALSE,
             X |-> LET stamp(c) == DatetimeString(ym.year[1], ym.month[1],
                                                  c[1], c[2])
                   IN [d \in {stamp(c) : c \in filled} |->
                        LET c == CHOOSE c \in filled : stamp(c) = d
                        IN ParseFloat(StripAnnotation(soup.cells[c]))]]

\* a slip: the threshold itself is not taken for a sentinel
cleanup_measurementBelow(X) ==
    [d \in DOMAIN X |-> IF X[d] < -90000 THEN 0 ELSE X[d]]

\* values are in tenths: -9000 is -90000
cleanup_measurement(X) ==
    [d \in DOMAIN X |-> IF X[d] <= -90000 THEN 0 ELSE X[d]]

----------------------------------------------------------------------------
(* Storage: table wallonie.measurement *)

\* ON CONFLICT (datetime, station_code, quantity_id)
Conflict(r, row) ==
    /\ r.datetime = row.datetime
    /\ r.station_code = row.station_code
    /\ r.quantity_id = row.quantity_id

\* a slip: a plain INSERT, no conflict clause and no unique constraint
UpsertPlainInsert(db, row) == db \cup {row}

\* INSERT ... ON CONFLICT ... DO UPDATE SET ... = EXCLUDED....
Upsert(db, row) == {r \in db : ~Conflict(r, row)} \cup {row}

\* the rows the loop over X.keys() executes
RowsOf(X, station_type, station_code) ==
    {[datetime |-> d, station_code |-> station_code,
      quantity_id |-> quantity_ids[station_type], value |-> X[d]] :
        d \in DOMAIN X}

\* the rows of the table that the rows written are in conflict with
Replaced(db, rows) == {r \in db : \E row \in rows : Conflict(r, row)}

RECURSIVE UpsertAll(_, _)
UpsertAll(db, rows) ==
    IF rows = {} THEN db
    ELSE LET row == CHOOSE r \in rows : TRUE
         IN UpsertAll(Upsert(db, row), rows \ {row})

\* the table after conn.commit()
insert_records_measurement(db, X, station_type, station_code) ==
    UpsertAll(db, RowsOf(X, station_type, station_code))

----------------------------------------------------------------------------
(* ETL of one station-month *)

\* a slip: without data, coverage keeps its initial 'unknown'
etl_station_monthUnknown(db, station_type, station_code, year, month, resp) ==
    LET got == retrieveStatHoraireTab(resp)
        quiet == [raised |-> FALSE, coverage |-> "unknown", db |-> db,
                  http |-> got.http, parsed |-> FALSE, written |-> {}]
    IN IF got.raised
       THEN [quiet EXCEPT !.raised = TRUE, !.coverage = "None"]
       ELSE IF got.soup = None THEN quiet
       ELSE IF ~access_authorized(got.soup[1]) THEN quiet
       ELSE LET p == parseMeasurements(got.soup[1])
            IN IF p.raised
               THEN [quiet EXCEPT !.raised = TRUE, !.coverage = "None",
                                  !.parsed = TRUE]
               ELSE LET X == cleanup_measurement(p.X)
                    IN [raised |-> FALSE, coverage |-> "covered",
                        db |-> insert_records_measurement(
                                   db, X, station_type, station_code),
                        http |-> got.http, parsed |-> TRUE,
                        written |-> RowsOf(X, station_type, station_code)]

\* raised: an exception left the call; coverage: the returned string;
\* db: the table afterwards; written: the rows executed and committed
etl_station_month(db, station_type, station_code, year, month, resp) ==
    LET got == retrieveStatHoraireTab(resp)
        quiet == [raised |-> FALSE, coverage |-> "bare", db |-> db,
                  http |-> got.http, parsed |-> FALSE, written |-> {}]
    IN IF got.raised
       THEN [quiet EXCEPT !.raised = TRUE, !.coverage = "None"]
       ELSE IF got.soup = None THEN quiet
       ELSE IF ~access_authorized(got.soup[1]) THEN quiet
       ELSE LET p == parseMeasurements(got.soup[1])
            IN IF p.raised
               THEN [quiet EXCEPT !.raised = TRUE, !.coverage = "None",
                                  !.parsed = TRUE]
               ELSE LET X == cleanup_measurement(p.X)
                    IN [raised |-> FALSE, coverage |-> "covered",
                        db |-> insert_records_measurement(
                                   db, X, station_type, station_code),
                        http |-> got.http, parsed |-> TRUE,
                        written |-> RowsOf(X, station_type, station_code)]

----------------------------------------------------------------------------
(* Station-Month Processor *)

\* a slip: every page is scraped, whatever its tracked status
ShouldScrapeAlways(old_coverage, want_covered) == TRUE

\* a slip: a covered page is never scraped again
ShouldScrapeNotCovered(old_coverage, want_covered) ==
    old_coverage \in want_covered /\ old_coverage # "covered"

\* old_coverage in want_covered
ShouldScrape(old_coverage, want_covered) == old_coverage \in want_covered

\* a slip: only the recent year-month is recognised as near now
RecencyOverrideRecentOnly(coverage, year, month, recent_ym, soon_ym) ==
    IF coverage = "covered" /\ <<year, month>> = recent_ym
    THEN "incomplete" ELSE coverage

\* a slip: near now every outcome becomes incomplete, fetched or not
RecencyOverrideAnyCoverage(coverage, year, month, recent_ym, soon_ym) ==
    IF <<year, month>> = recent_ym \/ <<year, month>> = soon_ym
    THEN "incomplete" ELSE coverage

\* the current month cannot be complete yet: covered becomes incomplete
RecencyOverride(coverage, year, month, recent_ym, soon_ym) ==
    IF coverage = "covered"
       /\ (<<year, month>> = recent_ym \/ <<year, month>> = soon_ym)
    THEN "incomplete" ELSE coverage

\* a slip: the new status is not kept
StoreStatusDropped(ledger, coverage_key, coverage_status) == ledger

\* self.data_coverage.set_status(coverage_key, new_coverage)
StoreStatus(ledger, coverage_key, coverage_status) ==
    set_status(ledger, coverage_key, coverage_status)

----------------------------------------------------------------------------
(* Inputs *)

\* the i-th year-month from December of BaseYear on, i = 0, 1, ...
UnitAt(i) == <<BaseYear + ((11 + i) \div 12), ((11 + i) % 12) + 1>>

Units == {UnitAt(i) : i \in 0..(NumUnits - 1)}

NextMonth(ym) == IF ym[2] = 12 THEN <<ym[1] + 1, 1>> ELSE <<ym[1], ym[2] + 1>>

\* (station_type, station_code): an example combination of the script
Stations == {<<"hauteur", 2536>>}

\* the want_covered lists of the code and the script, and one that refreshes
\* everything
WantSets ==
    {{"bare", "unknown"}, {"bare", "unknown", "incomplete"}, {"incomplete"},
     {"bare", "unknown", "incomplete", "covered"}}

AnnotatedText == <<"1", "2", ".", "3", "*">>

SentinelText == <<"-", "9", "0", "0", "0">>

\* <<day, hour>> of the cells a page may fill
CellPositions == {<<1, 1>>, <<31, 24>>}

\* the filled cells of a page: none, the first, the first and the last
CellMaps ==
    {<< >>,
     [c \in {<<1, 1>>} |-> AnnotatedText],
     [c \in {<<1, 1>>} |-> SentinelText],
     [c \in CellPositions |-> IF c = <<1, 1>> THEN SentinelText
                                              ELSE AnnotatedText]}

\* the form of a page of year-month ym: annee "2019", mois "12"
FormOf(ym) == [annee |-> ZeroPad(ym[1], 4), mois |-> ZeroPad(ym[2], 2)]

GoodPages ==
    {[denied |-> FALSE, form |-> Some(FormOf(ym)), ntables |-> 4, nrows |-> 24,
      cells |-> cells] : ym \in Units, cells \in CellMaps}

DeniedPage ==
    [denied |-> TRUE, form |-> None, ntables |-> 1, nrows |-> 0, cells |-> << >>]

\* authorized pages that break a layout assumption of the parser
MalformedPages ==
    {[denied |-> FALSE, form |-> None, ntables |-> 4, nrows |-> 24,
      cells |-> << >>],
     [denied |-> FALSE, form |-> Some(FormOf(UnitAt(0))), ntables |-> 1, nrows |-> 0,
      cells |-> << >>],
     [denied |-> FALSE, form |-> Some(FormOf(UnitAt(0))), ntables |-> 4, nrows |-> 23,
      cells |-> [c \in {<<1, 1>>} |-> AnnotatedText]],
     [denied |-> FALSE, form |-> Some([annee |-> << >>, mois |-> << >>]),
      ntables |-> 4, nrows |-> 24,
      cells |-> [c \in {<<1, 1>>} |-> AnnotatedText]]}

Responses ==
    {[first |-> f, second |-> "ok", soup |-> None] :
        f \in {"HTTPError", "URLError"}}
    \cup {[first |-> "ok", second |-> f, soup |-> None] :
        f \in {"HTTPError", "URLError"}}
    \cup {[first |-> "ok", second |-> "ok", soup |-> Some(page)] :
        page \in GoodPages \cup MalformedPages \cup {DeniedPage}}

NoCall ==
    [op |-> "init", key |-> None, want |-> {}, old |-> "None", again |-> FALSE,
     fetched |-> FALSE, url |-> None, resp |-> None, http |-> << >>,
     parsed |-> FALSE, written |-> {}, replaced |-> {}, outcome |-> "None",
     result |-> "None"]

----------------------------------------------------------------------------
(* The processor and the ledger's save *)

Init ==
    /\ data_coverage = DataCoverageInit.ledger
    /\ pickle_file = DataCoverageInit.file
    /\ saved = DataCoverageInit.ledger
    /\ measurement = {}
    /\ committed = {}
    /\ recent \in Units
    /\ soon \in {recent, NextMonth(recent)} \cap Units
    /\ pc = "running"
    /\ ncalls = 0
    /\ ret = NoCall
    /\ cal = None
    /\ drv = None

\* process_station_month(station_type, station_code, year, month,
\* want_covered); localtime is (tm_year, tm_mon) of time.localtime()
process_station_month(station_type, station_code, year, month, want_covered, localtime) ==
    LET y == IF year = None THEN localtime[1] ELSE year[1]
        m == IF month = None THEN localtime[2] ELSE month[1]
        coverage_key == CoverageKey(station_type, station_code, y, m)
        old_coverage == IF is_tracked(data_coverage, coverage_key)
                        THEN get_status(data_coverage, coverage_key)
                        ELSE "unknown"
        call == [NoCall EXCEPT !.op = "process_station_month",
                               !.key = coverage_key,
                               !.want = want_covered,
                               !.old = old_coverage,
                               !.again = /\ ret.op = "process_station_month"
                                         /\ ret.key = coverage_key
                                         /\ ret.want = want_covered]
    IN /\ ncalls' = ncalls + 1
       /\ IF ShouldScrape(old_coverage, want_covered)
          THEN \E resp \in Responses :
               \E etl \in {etl_station_month(measurement, station_type,
                                             station_code, y, m, resp)} :
                 LET new_coverage == RecencyOverride(etl.coverage, y, m,
                                                     recent, soon)
                     fetch == [call EXCEPT
                                 !.fetched = TRUE,
                                 !.url = Some(build_url_StatHoraireTab(
                                             station_type, station_code,
                                             Some(y), Some(m))),
                                 !.resp = Some(resp),
                                 !.http = etl.http,
                                 !.parsed = etl.parsed,
                                 !.written = etl.written,
                                 !.replaced = Replaced(measurement,
                                                       etl.written),
                                 !.outcome = etl.coverage]
                 IN IF etl.raised
                    THEN /\ pc' = "raised"
                         /\ ret' = fetch
                         /\ UNCHANGED <<data_coverage, measurement, committed>>
                    ELSE /\ pc' = "called"
                         /\ measurement' = etl.db
                         /\ committed' = IF etl.parsed
                                         THEN committed \cup {coverage_key}
                                         ELSE committed
                         /\ data_coverage' = StoreStatus(data_coverage,
                                                 coverage_key, new_coverage)
                         /\ ret' = [fetch EXCEPT !.result = new_coverage]
          ELSE /\ pc' = "called"
               /\ ret' = [call EXCEPT !.result = old_coverage]
               /\ UNCHANGED <<data_coverage, measurement, committed>>
       /\ UNCHANGED <<pickle_file, saved, recent, soon, cal>>

\* a call with year and month given
ProcessStationMonth ==
    \E st \in Stations, want_covered \in WantSets, ym \in Units :
        /\ pc = "running"
        /\ ncalls < MaxCalls
        /\ UNCHANGED drv
        /\ process_station_month(st[1], st[2], Some(ym[1]), Some(ym[2]),
                                 want_covered, ym)

\* a call with year=None and month=None, at a local time not before the
\* recent year-month
ProcessStationMonthNow ==
    \E st \in Stations, want_covered \in WantSets, localtime \in Units :
        /\ pc = "running"
        /\ ncalls < MaxCalls
        /\ UNCHANGED drv
        /\ localtime[1] > recent[1]
           \/ (localtime[1] = recent[1] /\ localtime[2] >= recent[2])
        /\ process_station_month(st[1], st[2], None, None, want_covered,
                                 localtime)

\* the caller repeats the call it just made, with the same arguments
ProcessStationMonthAgain ==
    /\ pc = "called"
    /\ ret.op = "process_station_month"
    /\ ~ret.again
    /\ ncalls < MaxCalls
    /\ UNCHANGED drv
    /\ process_station_month(ret.key[1], ret.key[2], Some(ret.key[3]),
                             Some(ret.key[4]), ret.want,
                             <<ret.key[3], ret.key[4]>>)

\* DataCoverage.save(): the whole dict replaces the file's content
Save ==
    /\ pc = "running"
    /\ ncalls < MaxCalls
    /\ ncalls' = ncalls + 1
    /\ pickle_file' = PickleDump(data_coverage)
    /\ saved' = data_coverage
    /\ pc' = "called"
    /\ ret' = [NoCall EXCEPT !.op = "save"]
    /\ UNCHANGED <<data_coverage, measurement, committed, recent, soon, cal, drv>>

\* the call returns to the script, which goes on
Return ==
    /\ pc = "called"
    /\ pc' = "running"
    /\ ret' = NoCall
    /\ UNCHANGED <<data_coverage, pickle_file, saved, measurement, committed, recent,
                   soon, ncalls, cal, drv>>

Next ==
    \/ ProcessStationMonth
    \/ ProcessStationMonthNow
    \/ ProcessStationMonthAgain
    \/ Save
    \/ Return

Spec == Init /\ [][Next]_vars

----------------------------------------------------------------------------
(* makeCalendar on its own: Init draws a window and a floor, the action     *)
(* applies the function                                                     *)

DefaultEarliestYear == 1965

CalYears == CalBaseYear..(CalBaseYear + CalSpan)

InitCal ==
    /\ data_coverage = DataCoverageInit.ledger
    /\ pickle_file = DataCoverageInit.file
    /\ saved = DataCoverageInit.ledger
    /\ measurement = {}
    /\ committed = {}
    /\ recent = UnitAt(0)
    /\ soon = UnitAt(0)
    /\ pc = "running"
    /\ ncalls = 0
    /\ ret = NoCall
    /\ drv = None
    /\ \E sy \in CalYears, ey \in CalYears, sm \in 1..12, em \in 1..12,
          earliest_year \in CalYears \cup {DefaultEarliestYear} :
          cal = [start |-> <<sy, sm>>,
                 end |-> <<ey, em>>,
                 start_date |-> PeriodDate(ZeroPad(sy, 4), ZeroPad(sm, 2)),
                 end_date |-> PeriodDate(ZeroPad(ey, 4), ZeroPad(em, 2)),
                 earliest_year |-> earliest_year,
                 done |-> FALSE,
                 calendar |-> << >>]

MakeCalendar ==
    /\ ~cal.done
    /\ cal' = [cal EXCEPT !.done = TRUE,
                          !.calendar = makeCalendar(cal.start_date, cal.end_date,
                                                    cal.earliest_year)]
    /\ UNCHANGED <<data_coverage, pickle_file, saved, measurement, committed, recent,
                   soon, pc, ncalls, ret, drv>>

NextCal == MakeCalendar

SpecCal == InitCal /\ [][NextCal]_vars

----------------------------------------------------------------------------
(* insert_records_measurement on its own: any sequence of calls             *)

DbStations == {<<"hauteur", 2536>>, <<"debit", 2536>>, <<"hauteur", 8221>>}

DbDatetimes ==
    {DatetimeString(BaseYear, 12, 1, 1), DatetimeString(BaseYear, 12, 31, 24)}

DbValues == {0, 123}

\* the dicts X given to insert_records_measurement
DbInputs == UNION {[D -> DbValues] : D \in SUBSET DbDatetimes}

InitDb ==
    /\ data_coverage = DataCoverageInit.ledger
    /\ pickle_file = DataCoverageInit.file
    /\ saved = DataCoverageInit.ledger
    /\ measurement = {}
    /\ committed = {}
    /\ recent = UnitAt(0)
    /\ soon = UnitAt(0)
    /\ pc = "running"
    /\ ncalls = 0
    /\ ret = NoCall
    /\ cal = None
    /\ drv = None

InsertRecords ==
    \E st \in DbStations, X \in DbInputs :
        /\ ncalls < MaxInserts
        /\ ncalls' = ncalls + 1
        /\ measurement' = insert_records_measurement(measurement, X,
                                                     st[1], st[2])
        /\ ret' = [NoCall EXCEPT
                     !.op = "insert_records_measurement",
                     !.written = RowsOf(X, st[1], st[2]),
                     !.replaced = Replaced(measurement,
                                           RowsOf(X, st[1], st[2]))]
        /\ UNCHANGED <<data_coverage, pickle_file, saved, committed, recent,
                       soon, pc, cal, drv>>

NextDb == InsertRecords

SpecDb == InitDb /\ [][NextDb]_vars

----------------------------------------------------------------------------
(* The ledger on its own: set_status calls, save() in its two steps, and     *)
(* the end of the process at any point followed by the next process's        *)
(* DataCoverage(filename)                                                    *)

LedgerKeys ==
    {CoverageKey(st[1], st[2], ym[1], ym[2]) : st \in Stations, ym \in Units}

\* the statuses of the docstring that the code implements
LedgerStatuses == {"covered", "bare", "incomplete", "unknown"}

InitLedger ==
    /\ data_coverage = DataCoverageInit.ledger
    /\ pickle_file = DataCoverageInit.file
    /\ saved = DataCoverageInit.ledger
    /\ measurement = {}
    /\ committed = {}
    /\ recent = UnitAt(0)
    /\ soon = NextMonth(UnitAt(0))
    /\ pc = "running"
    /\ ncalls = 0
    /\ ret = NoCall
    /\ cal = None
    /\ drv = None

SetStatus ==
    \E coverage_key \in LedgerKeys, coverage_status \in LedgerStatuses :
        /\ pc = "running"
        /\ ncalls < MaxCalls
        /\ ncalls' = ncalls + 1
        /\ data_coverage' = set_status(data_coverage, coverage_key,
                                       coverage_status)
        /\ ret' = [NoCall EXCEPT !.op = "set_status",
                                 !.key = Some(coverage_key),
                                 !.result = coverage_status]
        /\ UNCHANGED <<pickle_file, saved, measurement, committed, recent, soon, pc, cal,
                       drv>>

\* save(), first statement: open(self.filename, mode='wb')
SaveOpen ==
    /\ pc = "running"
    /\ pickle_file' = TruncatedFile
    /\ pc' = "saving"
    /\ ret' = [NoCall EXCEPT !.op = "open"]
    /\ UNCHANGED <<data_coverage, saved, measurement, committed, recent, soon, ncalls,
                   cal, drv>>

\* save(), the rest: pickle.dump and close
SaveDump ==
    /\ pc = "saving"
    /\ pickle_file' = PickleDump(data_coverage)
    /\ saved' = data_coverage
    /\ pc' = "running"
    /\ ret' = [NoCall EXCEPT !.op = "save"]
    /\ UNCHANGED <<data_coverage, measurement, committed, recent, soon, ncalls, cal, drv>>

\* the process ends where it is, and the next process constructs its
\* DataCoverage on the same filename
NewProcess ==
    \E ctor \in {DataCoverageNew(pickle_file)} :
        /\ data_coverage' = ctor.ledger
        /\ pickle_file' = ctor.file
        /\ pc' = IF ctor.raised THEN "raised" ELSE "running"
        /\ ret' = [NoCall EXCEPT !.op = "DataCoverage"]
        /\ UNCHANGED <<saved, measurement, committed, recent, soon, ncalls, cal, drv>>

NextLedger == SetStatus \/ SaveOpen \/ SaveDump \/ NewProcess

SpecLedger == InitLedger /\ [][NextLedger]_vars

----------------------------------------------------------------------------
(* A later run of the script: its DataCoverage loads the ledger that an      *)
(* earlier run saved after it covered one unit, which was not near now then  *)

\* the page with two filled cells that the earlier run received for ym
EarlierResponse(ym) ==
    [first |-> "ok", second |-> "ok",
     soup |-> Some(CHOOSE page \in GoodPages :
                     /\ page.form = Some(FormOf(ym))
                     /\ DOMAIN page.cells = CellPositions)]

InitRerun ==
    \E st \in Stations, ym \in Units :
    \E etl \in {etl_station_month({}, st[1], st[2], ym[1], ym[2],
                                  EarlierResponse(ym))} :
    \E file \in {PickleDump(set_status(EmptyLedger,
                     CoverageKey(st[1], st[2], ym[1], ym[2]), etl.coverage))} :
        /\ pickle_file = file
        /\ data_coverage = DataCoverageNew(file).ledger
        /\ saved = DataCoverageNew(file).ledger
        /\ measurement = etl.db
        /\ committed = {CoverageKey(st[1], st[2], ym[1], ym[2])}
        /\ recent \in Units
        /\ soon \in {recent, NextMonth(recent)} \cap Units
        /\ pc = "running"
        /\ ncalls = 0
        /\ ret = NoCall
        /\ cal = None
        /\ drv = None

SpecRerun == InitRerun /\ [][Next]_vars

----------------------------------------------------------------------------
(* The batch drivers: process_meuse_alltime calls process_station_alltime    *)
(* for every station of the watershed                                        *)

\* the station codes all_stations_meuse returns, in the order of the query
MeuseStations == <<2536, 8221>>

\* the keyword arguments of the script's calls, and calls that leave
\* earliest_year out
AlltimeKwargs ==
    {[earliest_year |-> e, want_covered |-> w] :
        e \in {None, Some(BaseYear), Some(BaseYear + 1)},
        w \in {{"bare", "unknown"}, {"bare", "unknown", "incomplete"}}}

\* a match of (\d\d)\/(\d\d\d\d): month "12" and year "2019"
PeriodText(ym) == <<ZeroPad(ym[2], 2), ZeroPad(ym[1], 4)>>

\* A landing page: ntables is the number of <table> elements and period the
\* matches in the cell "Periode : 12/2019 - 01/2020" of all_tables[2]; the
\* second page is the access-not-authorized page
LandingPages ==
    {[ntables |-> 4,
      period |-> <<PeriodText(UnitAt(0)), PeriodText(UnitAt(NumUnits - 1))>>],
     [ntables |-> 1, period |-> << >>]}

LandingResponses ==
    {[first |-> "HTTPError", second |-> "ok", soup |-> None],
     [first |-> "ok", second |-> "URLError", soup |-> None]}
    \cup {[first |-> "ok", second |-> "ok", soup |-> Some(page)] :
            page \in LandingPages}

\* raised: all_tables[2] missing (IndexError), or not exactly two matches
\* (ValueError)
parsePeriod(soup) ==
    IF soup.ntables < 3 \/ Len(soup.period) # 2
    THEN [raised |-> TRUE, start_date |-> None, end_date |-> None]
    ELSE [raised |-> FALSE,
          start_date |-> Some(PeriodDate(soup.period[1][2], soup.period[1][1])),
          end_date |-> Some(PeriodDate(soup.period[2][2], soup.period[2][1]))]

\* (start_date, end_date), (None, None) without soup, or an exception
process_station_period(resp) ==
    LET got == retrieveStatHoraireTab(resp)
        nothing == [raised |-> FALSE, start_date |-> None, end_date |-> None,
                    http |-> got.http]
    IN IF got.raised THEN [nothing EXCEPT !.raised = TRUE]
       ELSE IF got.soup = None THEN nothing
       ELSE LET period == parsePeriod(got.soup[1])
            IN [nothing EXCEPT !.raised = period.raised,
                               !.start_date = period.start_date,
                               !.end_date = period.end_date]

\* the driver before it starts on station todo[1]
DriverAt(todo, kwargs) ==
    [station_type |-> "hauteur", todo |-> todo, kwargs |-> kwargs,
     phase |-> IF todo = << >> THEN "done" ELSE "station",
     period |-> None, window |-> None, calendar |-> None, idx |-> 1,
     processed |-> << >>, saves |-> 0, last |-> "None"]

InitAll ==
    /\ data_coverage = DataCoverageInit.ledger
    /\ pickle_file = DataCoverageInit.file
    /\ saved = DataCoverageInit.ledger
    /\ measurement = {}
    /\ committed = {}
    /\ recent \in Units
    /\ soon \in {recent, NextMonth(recent)} \cap Units
    /\ pc = "running"
    /\ ncalls = 0
    /\ ret = NoCall
    /\ cal = None
    /\ \E kwargs \in AlltimeKwargs : drv = DriverAt(MeuseStations, kwargs)

\* process_station_alltime up to its loop: the period, the calendar
ProcessStationAlltime ==
    /\ pc = "running"
    /\ drv.phase = "station"
    /\ \E resp \in LandingResponses :
       \E per \in {process_station_period(resp)} :
         LET start == [DriverAt(drv.todo, drv.kwargs) EXCEPT
                         !.period = Some(resp)]
             found == [start EXCEPT
                         !.window = Some(<<per.start_date[1],
                                           per.end_date[1]>>)]
         IN /\ ret' = [NoCall EXCEPT !.op = "process_station_period",
                                     !.resp = Some(resp),
                                     !.http = per.http]
            /\ IF per.raised
               THEN /\ pc' = "raised"
                    /\ drv' = [start EXCEPT !.last = "raised"]
               ELSE IF per.start_date = None \/ per.end_date = None
               THEN /\ pc' = pc
                    /\ drv' = [DriverAt(Tail(drv.todo), drv.kwargs) EXCEPT
                                 !.period = Some(resp), !.last = "skipped"]
               ELSE IF drv.kwargs.earliest_year = None
               THEN /\ pc' = "raised"
                    /\ drv' = [found EXCEPT !.last = "raised"]
               ELSE /\ pc' = pc
                    /\ drv' = [found EXCEPT
                                 !.phase = "months",
                                 !.calendar = Some(makeCalendar(
                                     per.start_date[1], per.end_date[1],
                                     drv.kwargs.earliest_year[1]))]
    /\ UNCHANGED <<data_coverage, pickle_file, saved, measurement, committed, recent,
                   soon, ncalls, cal>>

\* one turn of the loop over the calendar
AlltimeMonth ==
    /\ pc = "running"
    /\ drv.phase = "months"
    /\ drv.idx <= Len(drv.calendar[1])
    /\ \E ym \in {drv.calendar[1][drv.idx]} :
         /\ process_station_month(drv.station_type, drv.todo[1], Some(ym[1]),
                                  Some(ym[2]), drv.kwargs.want_covered, ym)
         /\ drv' = [drv EXCEPT !.idx = @ + 1,
                               !.processed = Append(@, ym)]

\* self.data_coverage.save() after the loop, and back to process_meuse_alltime
AlltimeSave ==
    /\ pc = "running"
    /\ drv.phase = "months"
    /\ drv.idx > Len(drv.calendar[1])
    /\ pickle_file' = PickleDump(data_coverage)
    /\ saved' = data_coverage
    /\ ret' = [NoCall EXCEPT !.op = "save"]
    /\ drv' = [drv EXCEPT !.saves = @ + 1, !.last = "saved",
                          !.todo = Tail(@),
                          !.phase = IF Tail(drv.todo) = << >> THEN "done"
                                    ELSE "station"]
    /\ UNCHANGED <<data_coverage, measurement, committed, recent, soon, pc, ncalls, cal>>

NextAll == ProcessStationAlltime \/ AlltimeMonth \/ AlltimeSave \/ Return

SpecAll == InitAll /\ [][NextAll]_vars

----------------------------------------------------------------------------
(* process_station_month statement by statement, save() in its two steps,    *)
(* and the end of the process at any point followed by the next process      *)

InitCrash ==
    /\ data_coverage = DataCoverageInit.ledger
    /\ pickle_file = DataCoverageInit.file
    /\ saved = DataCoverageInit.ledger
    /\ measurement = {}
    /\ committed = {}
    /\ recent = UnitAt(0)
    /\ soon \in {recent, NextMonth(recent)} \cap Units
    /\ pc = "running"
    /\ ncalls = 0
    /\ ret = NoCall
    /\ cal = None
    /\ drv = None

\* process_station_month up to the return of etl_station_month: the page is
\* fetched and its rows are committed, set_status is still to come
EtlStationMonth ==
    \E st \in Stations, want_covered \in WantSets, ym \in Units :
      LET coverage_key == CoverageKey(st[1], st[2], ym[1], ym[2])
          old_coverage == IF is_tracked(data_coverage, coverage_key)
                          THEN get_status(data_coverage, coverage_key)
                          ELSE "unknown"
          call == [NoCall EXCEPT !.op = "process_station_month",
                                 !.key = coverage_key,
                                 !.want = want_covered,
                                 !.old = old_coverage]
      IN /\ pc = "running"
         /\ ncalls < MaxCalls
         /\ ncalls' = ncalls + 1
         /\ IF ShouldScrape(old_coverage, want_covered)
            THEN \E resp \in Responses :
                 \E etl \in {etl_station_month(measurement, st[1], st[2],
                                               ym[1], ym[2], resp)} :
                   LET fetch == [call EXCEPT
                                   !.fetched = TRUE,
                                   !.resp = Some(resp),
                                   !.http = etl.http,
                                   !.parsed = etl.parsed,
                                   !.written = etl.written,
                                   !.outcome = etl.coverage]
                   IN IF etl.raised
                      THEN /\ pc' = "raised"
                           /\ ret' = fetch
                           /\ UNCHANGED <<measurement, committed>>
                      ELSE /\ pc' = "fetched"
                           /\ measurement' = etl.db
                           /\ committed' = IF etl.parsed
                                           THEN committed \cup {coverage_key}
                                           ELSE committed
                           /\ ret' = [fetch EXCEPT !.result =
                                        RecencyOverride(etl.coverage, ym[1],
                                                        ym[2], recent, soon)]
            ELSE /\ pc' = "called"
                 /\ ret' = [call EXCEPT !.result = old_coverage]
                 /\ UNCHANGED <<measurement, committed>>
         /\ UNCHANGED <<data_coverage, pickle_file, saved, recent, soon, cal,
                        drv>>

\* self.data_coverage.set_status(coverage_key, new_coverage)
SetStatusAfterEtl ==
    /\ pc = "fetched"
    /\ data_coverage' = StoreStatus(data_coverage, ret.key, ret.result)
    /\ pc' = "called"
    /\ UNCHANGED <<pickle_file, saved, measurement, committed, recent, soon,
                   ncalls, ret, cal, drv>>

NextCrash ==
    \/ EtlStationMonth
    \/ SetStatusAfterEtl
    \/ Return
    \/ SaveOpen
    \/ SaveDump
    \/ NewProcess

SpecCrash == InitCrash /\ [][NextCrash]_vars

----------------------------------------------------------------------------
(* Properties *)

IsProcessCall == ret.op = "process_station_month"

\* the status the ledger holds for a key, 'unknown' for an untracked key
TrackedStatus(ledger, key) ==
    IF key \in DOMAIN ledger THEN ledger[key] ELSE "unknown"

YmLeq(a, b) == a[1] < b[1] \/ (a[1] = b[1] /\ a[2] <= b[2])

\* C1: a process_station_month call on a key whose current status
\* ('unknown' if untracked) is not in want_covered fetches no page, writes
\* no row, leaves the ledger and the table exactly as they were and returns
\* the old status.
C1_SkipLeavesAllUnchanged ==
    [][(ret'.op = "process_station_month" /\ ncalls' = ncalls + 1
        /\ TrackedStatus(data_coverage, ret'.key) \notin ret'.want)
       => /\ ~ret'.fetched
          /\ ret'.http = << >>
          /\ ret'.written = {}
          /\ measurement' = measurement
          /\ data_coverage' = data_coverage
          /\ ret'.result = TrackedStatus(data_coverage, ret'.key)
          /\ pc' = "called"]_vars

\* a tracked key was skipped
C1_Witness ==
    /\ IsProcessCall
    /\ ~ret.fetched
    /\ ret.key \in DOMAIN data_coverage
    /\ ret.result = data_coverage[ret.key]

\* C2 as stated: for any want_covered, the second of two calls in a row with
\* the same arguments fetches nothing and leaves the table as the first call
\* left it.
C2_SecondCallNeverFetches ==
    [][ret'.again => (~ret'.fetched /\ measurement' = measurement)]_vars

\* C2 as amended: when the status the first call returned is not in
\* want_covered, the second of two calls in a row with the same arguments
\* fetches nothing, writes nothing and leaves the table as the first call
\* left it.
C2_SecondCallSkipsWhenStatusLeftWant ==
    [][(ret'.again /\ ret.result \notin ret'.want)
       => /\ ~ret'.fetched
          /\ ret'.http = << >>
          /\ ret'.written = {}
          /\ measurement' = measurement
          /\ data_coverage' = data_coverage
          /\ ret'.result = ret.result
          /\ pc' = "called"]_vars

\* the first call covered the unit, the second call skipped it
C2_Witness ==
    /\ IsProcessCall
    /\ ret.again
    /\ ~ret.fetched
    /\ ret.old = "covered"
    /\ measurement # {}

\* C3: after a fetch, an ETL outcome 'covered' is stored and returned as
\* 'incomplete' when (year, month) is the recent or the soon year-month and
\* as 'covered' otherwise; an outcome 'bare' is stored and returned as 'bare'.
C3_RecencyOverride ==
    (IsProcessCall /\ ret.fetched /\ pc # "raised")
    => LET ym == <<ret.key[3], ret.key[4]>>
       IN /\ ret.outcome \in {"covered", "bare"}
          /\ ret.outcome = "covered"
             => ret.result = IF ym = recent \/ ym = soon
                             THEN "incomplete" ELSE "covered"
          /\ ret.outcome = "bare" => ret.result = "bare"
          /\ ret.key \in DOMAIN data_coverage
          /\ data_coverage[ret.key] = ret.result

\* a covered page of the soon year-month, which is not the recent one
C3_Witness ==
    /\ IsProcessCall
    /\ ret.fetched
    /\ ret.outcome = "covered"
    /\ ret.result = "incomplete"
    /\ <<ret.key[3], ret.key[4]>> = soon
    /\ soon # recent

\* C4: for a window whose start is not after its end and an earliest_year not
\* later than the start year, every (year, month) of the calendar lies
\* between the window's start and end year-months.
C4_CalendarInsideWindow ==
    (cal.done /\ cal.earliest_year <= cal.start[1] /\ YmLeq(cal.start, cal.end))
    => \A i \in 1..Len(cal.calendar) :
          YmLeq(cal.start, cal.calendar[i]) /\ YmLeq(cal.calendar[i], cal.end)

C7_NetworkFailureIsSoft ==
    (IsProcessCall /\ ret.fetched
     /\ (ret.resp[1].first # "ok" \/ ret.resp[1].second # "ok"))
    => /\ pc # "raised"
       /\ ret.written = {}
       /\ ret.result = "bare"
       /\ data_coverage[ret.key] = "bare"

\* C8: a fetched document with the access-not-authorized heading is not
\* parsed, no row is written and the outcome is 'bare'.
C8_AccessDeniedIsBare ==
    [][(ret'.op = "process_station_month" /\ ncalls' = ncalls + 1
        /\ ret'.fetched
        /\ ret'.resp[1].soup # None
        /\ ret'.resp[1].soup[1].denied)
       => /\ ~ret'.parsed
          /\ ret'.written = {}
          /\ measurement' = measurement
          /\ ret'.outcome = "bare"
          /\ pc' = "called"]_vars

\* a denied page was fetched
C8_Witness ==
    /\ IsProcessCall
    /\ ret.fetched
    /\ ret.resp[1].soup # None
    /\ ret.resp[1].soup[1].denied
    /\ ret.result = "bare"

\* C9: for a fetched, authorized document without the form, without the
\* measurement table or with fewer than 24 rows, the call does not raise and
\* yields 'bare'.
C9_MalformedPageIsBare ==
    (IsProcessCall /\ ret.fetched
     /\ ret.resp[1].soup # None
     /\ ~ret.resp[1].soup[1].denied
     /\ \/ ret.resp[1].soup[1].form = None
        \/ ret.resp[1].soup[1].ntables < 2
        \/ ret.resp[1].soup[1].nrows < 24)
    => /\ pc # "raised"
       /\ ret.result = "bare"

NoDuplicateRows ==
    \A r1, r2 \in measurement : Conflict(r1, r2) => r1 = r2

\* C10: after any sequence of insert_records_measurement calls the table
\* holds at most one row per (datetime, station_code, quantity_id); a call
\* adds one row per key that was not there, none for a key that was, and
\* every row it wrote is in the table with the value written.
C10_UpsertKeepsKeysUnique ==
    [][/\ NoDuplicateRows'
       /\ (ret'.op = "insert_records_measurement" /\ ncalls' = ncalls + 1)
          => /\ ret'.written \subseteq measurement'
             /\ Cardinality(measurement')
                = Cardinality(measurement)
                  + Cardinality({row \in ret'.written :
                        \A r \in measurement : ~Conflict(r, row)})
             /\ \A r \in measurement :
                   (\A row \in ret'.written : ~Conflict(r, row))
                   => r \in measurement']_vars

\* a row was written over a row of the same key and another value
C10_Witness ==
    /\ ret.op = "insert_records_measurement"
    /\ \E row \in ret.written : \E r \in ret.replaced :
          /\ Conflict(r, row)
          /\ r.value # row.value
          /\ row \in measurement
          /\ r \notin measurement

\* C11: save() followed by the construction of a fresh DataCoverage on the
\* same filename gives a mapping with exactly the keys and statuses of the
\* in-memory ledger that was saved, whatever set_status calls built it.
C11_SaveThenLoadIsIdentity ==
    [][(ret.op = "save" /\ ret'.op = "DataCoverage")
       => /\ pc' = "running"
          /\ DOMAIN data_coverage' = DOMAIN data_coverage
          /\ \A k \in DOMAIN data_coverage :
                data_coverage'[k] = data_coverage[k]]_vars

C11_Witness ==
    /\ ret.op = "DataCoverage"
    /\ pc = "running"
    /\ data_coverage = saved
    /\ DOMAIN data_coverage = LedgerKeys
    /\ \E k \in LedgerKeys : data_coverage[k] = "covered"
    /\ \E k \in LedgerKeys : data_coverage[k] = "bare"

\* C19: whenever the process ends and the next one constructs its
\* DataCoverage, the construction succeeds and the loaded ledger is the
\* in-memory ledger of the most recent completed save().
C19_NextProcessLoadsLastSave ==
    ret.op = "DataCoverage" => (pc = "running" /\ data_coverage = saved)

\* the page a fetching call received
PageOf(call) == call.resp[1].soup[1]

\* the number written in positions from..to of a datetime string
StampField(d, from, to) == ParseInt(SubSeq(d, from, to))

\* C12: every value parsed from a page that is <= -9000 is written as 0,
\* every value > -9000 is written as parsed, under the timestamp of its
\* cell; no row of the table ever holds a value <= -9000.
C12_SentinelsAreCleaned ==
    /\ \A r \in measurement : r.value \in Int /\ r.value > -90000
    /\ (IsProcessCall /\ ret.fetched /\ ret.outcome = "covered") =>
          LET page == PageOf(ret)
              ym == parseYearMonth(page)
              raw(c) == ParseFloat(StripAnnotation(page.cells[c]))
          IN /\ Cardinality(ret.written) = Cardinality(DOMAIN page.cells)
             /\ \A c \in DOMAIN page.cells :
                   \E r \in ret.written :
                     /\ r.datetime = DatetimeString(ym.year[1], ym.month[1],
                                                    c[1], c[2])
                     /\ r.value = IF raw(c) <= -90000 THEN 0 ELSE raw(c)

C12_Witness ==
    /\ IsProcessCall /\ ret.fetched /\ ret.outcome = "covered"
    /\ \E c \in DOMAIN PageOf(ret).cells :
          PageOf(ret).cells[c] = SentinelText
    /\ \E r \in ret.written : r.value = 0
    /\ \E r \in ret.written : r.value = 123
    /\ ret.written \subseteq measurement

\* C15: within the requests of a call, every urlopen is immediately
\* preceded by a sleep of SLEEPTIME: no two requests without a delay between
\* them.
C15_DelayBeforeEveryRequest ==
    \A i \in 1..Len(ret.http) :
        ret.http[i] = "urlopen" => (i > 1 /\ ret.http[i - 1] = "sleep")

\* C17: a fetching call that returns 'covered', or 'incomplete' by the
\* recency override, has written at least one row.
C17_CoveredMeansWritten ==
    (IsProcessCall /\ ret.fetched /\ pc = "called"
     /\ ret.result \in {"covered", "incomplete"})
    => ret.written # {}

\* C20: the rows written from a parsed page are one per filled cell, with
\* distinct timestamps; each timestamp holds the year and month of the
\* page's form fields annee and mois, and the day and hour of a filled cell.
C20_RecordsCarryPagePeriod ==
    (IsProcessCall /\ ret.fetched /\ ret.outcome = "covered") =>
        LET page == PageOf(ret)
            stamps == {r.datetime : r \in ret.written}
        IN /\ Cardinality(stamps) = Cardinality(DOMAIN page.cells)
           /\ Cardinality(ret.written) = Cardinality(stamps)
           /\ \A d \in stamps :
                 /\ Len(d) = 22
                 /\ StampField(d, 1, 4) = ParseInt(page.form[1].annee)
                 /\ StampField(d, 6, 7) = ParseInt(page.form[1].mois)
                 /\ <<StampField(d, 9, 10), StampField(d, 12, 13)>>
                        \in DOMAIN page.cells
                 /\ StampField(d, 9, 10) \in 1..31
                 /\ StampField(d, 12, 13) \in 1..24

C20_Witness ==
    /\ IsProcessCall /\ ret.fetched /\ ret.outcome = "covered"
    /\ Cardinality(ret.written) = 2
    /\ ParseInt(PageOf(ret).form[1].annee) # ret.key[3]
    /\ \E r \in ret.written : StampField(r.datetime, 12, 13) = 24

\* C18: no (year, month) of the calendar has a year earlier than
\* earliest_year, for every window and every earliest_year.
C18_EarliestYearIsFloor ==
    cal.done => \A i \in 1..Len(cal.calendar) :
                    cal.calendar[i][1] >= cal.earliest_year

\* C16 as stated: a key that is 'covered' stays 'covered' or becomes
\* 'incomplete', the latter only for the recent or soon year-month, whatever
\* the call.
C16_CoveredOnlyToIncomplete ==
    [][\A k \in DOMAIN data_coverage :
         data_coverage[k] = "covered"
         => /\ k \in DOMAIN data_coverage'
            /\ data_coverage'[k] \in {"covered", "incomplete"}
            /\ data_coverage'[k] = "incomplete"
                  => <<k[3], k[4]>> \in {recent, soon}]_vars

\* C16: a 'covered' key stays tracked and changes only in a call on that
\* key whose want_covered contains 'covered'; such a call fetches again and,
\* unless it raises, stores the fetch's outcome: 'bare' for a failed or
\* denied fetch, 'incomplete' for a covered recent or soon year-month,
\* 'covered' otherwise; never 'unknown'.
C16_CoveredFollowsRefetch ==
    [][\A k \in DOMAIN data_coverage :
         data_coverage[k] = "covered"
         => /\ k \in DOMAIN data_coverage'
            /\ IF /\ ret'.op = "process_station_month"
                  /\ ncalls' = ncalls + 1
                  /\ ret'.key = k
                  /\ "covered" \in ret'.want
               THEN /\ ret'.fetched
                    /\ data_coverage'[k] =
                         IF pc' = "raised" THEN "covered"
                         ELSE IF ret'.outcome = "bare" THEN "bare"
                         ELSE IF <<k[3], k[4]>> \in {recent, soon}
                              THEN "incomplete" ELSE "covered"
               ELSE data_coverage'[k] = "covered"]_vars

C16_Witness ==
    /\ IsProcessCall
    /\ ret.old = "covered"
    /\ ret.fetched
    /\ ret.result = "incomplete"
    /\ data_coverage[ret.key] = "incomplete"
    /\ <<ret.key[3], ret.key[4]>> = soon

\* C13: once the window of a station is resolved, the calls of
\* process_station_month follow the calendar, one per unit and in its order,
\* with no save in between; when process_station_alltime has ended, every
\* unit of the calendar was processed and the ledger was saved exactly once,
\* the file holding the in-memory ledger.
C13_EveryUnitThenOneSave ==
    drv.window # None
    => /\ drv.calendar # None
       /\ drv.processed = SubSeq(drv.calendar[1], 1, Len(drv.processed))
       /\ drv.last # "saved" => drv.saves = 0
       /\ (drv.last \in {"saved", "raised"} \/ pc = "raised")
          => /\ drv.processed = drv.calendar[1]
             /\ drv.saves = 1
             /\ saved = data_coverage
             /\ PickleLoad(pickle_file) = data_coverage

\* C14: a process_station_alltime whose landing page could not be fetched
\* raises nothing, builds no calendar, processes no unit, leaves ledger,
\* table and file as they were, and process_meuse_alltime goes on with the
\* next station.
C14_UnfetchedPageSkipsStation ==
    [][(drv.phase = "station" /\ drv' # drv
        /\ (drv'.period[1].first # "ok" \/ drv'.period[1].second # "ok"))
       => /\ pc' = "running"
          /\ drv'.last = "skipped"
          /\ drv'.window = None
          /\ drv'.calendar = None
          /\ drv'.processed = << >>
          /\ drv'.saves = 0
          /\ data_coverage' = data_coverage
          /\ measurement' = measurement
          /\ pickle_file' = pickle_file
          /\ drv'.todo = Tail(drv.todo)
          /\ drv'.todo # << >> => drv'.phase = "station"]_vars

\* C21: every status the ledger or its file holds is 'bare', 'covered' or
\* 'incomplete'; a call returns 'unknown' only when it skipped a key that
\* is not tracked.
C21_StoredStatusDomain ==
    /\ \A k \in DOMAIN data_coverage :
          data_coverage[k] \in {"bare", "covered", "incomplete"}
    /\ \A item \in pickle_file.items :
          item[2] \in {"bare", "covered", "incomplete"}
    /\ (IsProcessCall /\ pc = "called" /\ ret.result = "unknown")
          => (~ret.fetched /\ ret.key \notin DOMAIN data_coverage)
    /\ (IsProcessCall /\ pc = "called")
          => ret.result \in {"bare", "covered", "incomplete", "unknown"}

C21_Witness ==
    /\ IsProcessCall /\ ret.fetched /\ pc = "called"
    /\ ret.outcome = "bare"
    /\ \E k \in DOMAIN data_coverage : data_coverage[k] = "incomplete"
    /\ \E k \in DOMAIN data_coverage : data_coverage[k] = "bare"

\* C23: when a call stores 'covered' or 'incomplete' for a key, every row
\* it wrote has the key's station code and measurement type and a timestamp
\* in the key's year and month.
C23_RowsMatchTheKey ==
    (IsProcessCall /\ ret.fetched /\ pc = "called"
     /\ ret.result \in {"covered", "incomplete"})
    => \A r \in ret.written :
          /\ r.station_code = ret.key[2]
          /\ r.quantity_id = quantity_ids[ret.key[1]]
          /\ StampField(r.datetime, 1, 4) = ret.key[3]
          /\ StampField(r.datetime, 6, 7) = ret.key[4]

\* C24: a process_station_alltime without earliest_year whose window is
\* resolved does not fail and builds the calendar with the floor 1965.
C24_AlltimeWithoutEarliestYear ==
    (drv.kwargs.earliest_year = None /\ drv.window # None)
    => /\ pc # "raised"
       /\ drv.last # "raised"
       /\ drv.calendar = Some(makeCalendar(drv.window[1][1], drv.window[1][2],
                                           DefaultEarliestYear))

\* C22: a key that the in-memory ledger, the ledger file or the status
\* about to be stored maps to 'covered' or 'incomplete' had the storage
\* write of its page committed before, in every state, the states after the
\* end of a process and the start of the next included.
C22_LedgerNeverAheadOfStorage ==
    /\ \A k \in DOMAIN data_coverage :
          data_coverage[k] \in {"covered", "incomplete"} => k \in committed
    /\ \A item \in pickle_file.items :
          item[2] \in {"covered", "incomplete"} => item[1] \in committed
    /\ (pc = "fetched" /\ ret.result \in {"covered", "incomplete"})
          => (ret.key \in committed /\ ret.written \subseteq measurement)

C22_Witness ==
    /\ ret.op = "DataCoverage"
    /\ pc = "running"
    /\ \E k \in DOMAIN data_coverage : data_coverage[k] = "covered"
    /\ \E k \in committed : k \notin DOMAIN data_coverage
    /\ measurement # {}

=============================================================================
